---- MODULE Spec2Model ----
(***************************************************************************)
(* Lunar crater map: the row parser, the dataset loader, the slider setup, *)
(* the map builder with its update/redraw cycle and zoom handler, and the  *)
(* radius scale, for both scripts of the repository:                       *)
(*   "time"     = src/script.js          (filter on TimeStepCreated)       *)
(*   "diameter" = src/unnamed/part_000   (filter on diameter)              *)
(*                                                                         *)
(* JavaScript values are tagged tuples, so that a number, NaN, null and a  *)
(* piece of csv text can sit in the same field:                            *)
(*   <<"num", v>>  a number      <<"NaN">>  not-a-number   <<"null">>      *)
(*   <<"digits", v>>  csv text that reads as the number v                  *)
(*   <<"empty">>  the empty string   <<"bad">>  text that is no number     *)
(*   <<"undefined">>  a column the row does not have                       *)
(* Diameters are counted in half kilometres (DiamUnit halves make 1 km),   *)
(* radii in hundredths of a pixel; every other number is a whole number.   *)
(***************************************************************************)
EXTENDS Integers, Sequences, FiniteSets

VARIABLES
  variant,            \* which script runs: "time" or "diameter"
  files,              \* the two csv files: [S |-> rows, E |-> rows]
  fetch,              \* d3.csv of each file: "pending", "ok" or "failed"
  loadPc,             \* the Promise.all(...).then(...).catch(...) chain
  logCount,           \* calls of console.error
  showSurvivedInput,  \* <<"null">> or <<"checkbox", checked>>
  showErasedInput,    \* <<"null">> or <<"checkbox", checked>>
  slider,             \* <<"null">> or <<"range", max, value>>
  sliderLabel,        \* <<"null">> or <<"span", textContent>>
  nonmare,            \* the nonmare slider and label: [slider |-> .., label |-> ..]
  svg,                \* the drawing surfaces: [count, layers, transform]
  outline,            \* d3.json of the outline: "none", "pending", "ok", "failed"
  markers,            \* the circles of the crater group, in document order
  origin,             \* per circle: <<position, datum>> it had before the last update,
                      \* <<0>> if that update created it
  listeners,          \* the controls update is registered on
  zoomOn,             \* whether svg.call(zoom) has run
  thrown,             \* TypeErrors raised by the script so far
  benchPc,            \* row bench: "off", "read", "parsed" or "scaled"
  row,                \* row bench: the raw row handed to parseCraterRow
  rec,                \* row bench: the parsed record
  radius              \* row bench: craterRadius of the record's diameter

mapVars == <<files, fetch, loadPc, logCount, showSurvivedInput, showErasedInput,
             slider, sliderLabel, nonmare, svg, outline, markers, origin,
             listeners, zoomOn, thrown>>
rowVars == <<benchPc, row, rec, radius>>
vars == <<variant, mapVars, rowVars>>

Variants == {"time", "diameter"}

(***************************************************************************)
(* Bounds of the model.                                                    *)
(***************************************************************************)
\* total number of rows of the two csv files
MaxRows == 2
\* highest slider position the user moves to
MaxSlide == 2
\* pan/zoom transforms the user reaches besides the identity
MaxZoom == 1

(***************************************************************************)
(* JavaScript numbers.                                                     *)
(***************************************************************************)
NaN == <<"NaN">>
Null == <<"null">>
Num(v) == <<"num", v>>
IsNum(x) == x[1] = "num"
Digits(v) == <<"digits", v>>
EmptyText == <<"empty">>
BadText == <<"bad">>
Undefined == <<"undefined">>

\* unary plus on a csv field: +"" is 0, +undefined and +"abc" are NaN
ToNumber(t) ==
  IF t[1] = "digits" THEN Num(t[2])
  ELSE IF t = EmptyText THEN Num(0)
  ELSE NaN

\* truthiness of a csv field: only the empty string and undefined are falsy
Truthy(t) == t[1] = "digits" \/ t = BadText

\* x + k for an integer k
Add(x, k) == IF IsNum(x) THEN Num(x[2] + k) ELSE NaN
\* x < k and x >= k: every comparison with NaN is false
Lt(x, k) == IsNum(x) /\ x[2] < k
Ge(x, k) == IsNum(x) /\ x[2] >= k

\* Math.max and Math.min of a number and a constant: NaN if the number is NaN
MathMax(k, x) == IF IsNum(x) THEN (IF x[2] > k THEN x ELSE Num(k)) ELSE NaN
MathMin(k, x) == IF IsNum(x) THEN (IF x[2] < k THEN x ELSE Num(k)) ELSE NaN

\* halves in a kilometre
DiamUnit == 1 + 1
\* hundredths in a pixel
PixelUnit == 10 * 10

\* the largest k in lo..hi with k * k <= n, given lo * lo <= n
RECURSIVE SqrtSearch(_, _, _)
SqrtSearch(n, lo, hi) ==
  IF lo >= hi THEN lo
  ELSE LET mid == (lo + hi + 1) \div 2
       IN  IF mid * mid <= n THEN SqrtSearch(n, mid, hi)
           ELSE SqrtSearch(n, lo, mid - 1)
ISqrt(n) == SqrtSearch(n, 0, IF n < 1024 THEN n ELSE IF n < 1024 * 1024 THEN 1024 ELSE 46340)

\* Math.sqrt(diameter) * 0.8 in hundredths, for a diameter in halves:
\* 100 * 0.8 * sqrt(h / 2) = sqrt(80 * 80 * h / 2), rounded down; NaN below zero
SqrtTimes08(d) ==
  IF IsNum(d) /\ d[2] >= 0
  THEN Num(ISqrt(((80 * 80) \div DiamUnit) * d[2]))
  ELSE NaN

(***************************************************************************)
(* Row parser.                                                             *)
(***************************************************************************)
\* script.js subtracts 180 and wraps; part_000 keeps the longitude as read
ParseLon(v, d) ==
  IF v = "time"
  THEN LET lon == Add(ToNumber(d.Longitude), -180)
       IN  IF Lt(lon, -180) THEN Add(lon, 360) ELSE lon
  ELSE ToNumber(d.Longitude)

parseCraterRow(v, d) ==
  [lon |-> ParseLon(v, d),
   lat |-> ToNumber(d.Latitude),
   diameter |-> ToNumber(d.diameter),
   created |-> ToNumber(d.TimeStepCreated),
   survivedTime |->
     IF v = "time"
     THEN (IF Truthy(d.SurvivedTimeStep) THEN ToNumber(d.SurvivedTimeStep) ELSE Null)
     ELSE ToNumber(d.SurvivedTimeStep)]

(***************************************************************************)
(* Radius scale.                                                           *)
(***************************************************************************)
minR == 1
maxR == 8

craterRadius(diameter) ==
  MathMax(minR * PixelUnit, MathMin(maxR * PixelUnit, SqrtTimes08(diameter)))

(***************************************************************************)
(* The datasets d3.csv hands to the loader: one record object per row.     *)
(* A record is referred to by <<file, index>>: two rows with equal fields  *)
(* are two objects.                                                        *)
(***************************************************************************)
\* a sequence given by a rule, laid out element by element
Array(s) == s \o <<>>

Data(f) == [i \in 1..Len(files[f]) |-> parseCraterRow(variant, files[f][i])]
Refs(f) == [i \in 1..Len(files[f]) |-> <<f, i>>]
Record(d) == parseCraterRow(variant, files[d[1]][d[2]])

\* the field the slider filters on, and how many of its units make one
\* slider step
FilterField(r) == IF variant = "time" THEN r.created ELSE r.diameter
FilterUnit == IF variant = "time" THEN 1 ELSE DiamUnit

\* array.includes(d): the same object, not an equal one
Includes(f, d) == \E i \in 1..Len(files[f]) : <<f, i>> = d

(***************************************************************************)
(* Update/redraw cycle.                                                    *)
(***************************************************************************)
\* data.filter(d => d.created >= minTime), resp. d.diameter >= minDiameter
PassesFilterBelow(d, threshold) ==
  ~IsNum(FilterField(Record(d)))
  \/ Lt(FilterField(Record(d)), threshold * FilterUnit + 1)

PassesFilter(d, threshold) == Ge(FilterField(Record(d)), threshold * FilterUnit)

FilterData(f, threshold) ==
  SelectSeq(Array(Refs(f)), LAMBDA d : PassesFilter(d, threshold))

Filtered(showSurvived, showErased, threshold) ==
  (IF showSurvived THEN FilterData("S", threshold) ELSE <<>>)
  \o (IF showErased THEN FilterData("E", threshold) ELSE <<>>)

\* the join key `${d.lon},${d.lat},${d.diameter}`; part_000 tries d.id first,
\* which no parsed record has
KeyOf(d) == LET r == Record(d) IN <<r.lon, r.lat, r.diameter>>

\* selection.data(data, key), first pass: the circles are looked up by the
\* key of their datum; of the circles with one key the first is, the later
\* ones leave. 0 if no circle has key k.
NodeByKey(groupKeys, k) ==
  LET hits == {i \in 1..Len(groupKeys) : groupKeys[i] = k}
  IN  IF hits = {} THEN 0 ELSE CHOOSE i \in hits : \A j \in hits : i <= j

\* second pass: a datum takes the circle of its key unless an earlier datum
\* took it; upd[i] is the circle's position, 0 for a datum that enters
BindKey(groupKeys, dataKeys) ==
  Array([i \in 1..Len(dataKeys) |->
           IF \E j \in 1..(i - 1) : dataKeys[j] = dataKeys[i]
           THEN 0
           ELSE NodeByKey(groupKeys, dataKeys[i])])

\* the smallest data index after i0 that joined a circle, 0 if none
NextUpdate(upd, i0) ==
  LET later == {i \in (i0 + 1)..Len(upd) : upd[i] # 0}
  IN  IF later = {} THEN 0 ELSE CHOOSE i \in later : \A j \in later : i <= j

InsertBefore(doc, item, nextData) ==
  LET at == {p \in 1..Len(doc) : doc[p][2] = nextData}
  IN  IF nextData = 0 \/ at = {}
      THEN Append(doc, item)
      ELSE LET p == CHOOSE q \in at : TRUE
           IN  SubSeq(doc, 1, p - 1) \o <<item>> \o SubSeq(doc, p, Len(doc))

\* enter().append("circle"): each entering datum, in data order, gets a circle
\* placed before the circle of the next joined datum, or last
RECURSIVE AppendEnter(_, _, _)
AppendEnter(doc, upd, i0) ==
  IF i0 > Len(upd) THEN doc
  ELSE IF upd[i0] # 0 THEN AppendEnter(doc, upd, i0 + 1)
  ELSE AppendEnter(InsertBefore(doc, <<0, i0>>, NextUpdate(upd, i0)), upd, i0 + 1)

\* exit().remove(): of the n circles those no datum joined leave; doc lists
\* <<old position, data index>> in document order
AfterExit(n, upd) ==
  LET kept == SelectSeq(Array([i \in 1..n |-> i]),
                        LAMBDA i : \E j \in 1..Len(upd) : upd[j] = i)
  IN  Array([p \in 1..Len(kept) |->
               <<kept[p], CHOOSE j \in 1..Len(upd) : upd[j] = kept[p]>>])

\* the class attribute of a circle
CategoryClassByValue(d) ==
  IF \E i \in 1..Len(files["S"]) : Record(<<"S", i>>) = Record(d)
  THEN "crater-survived" ELSE "crater-erased"

CategoryClass(d) ==
  IF Includes("S", d) THEN "crater-survived" ELSE "crater-erased"

\* the circle of datum d after merge(...).attr(...)
Circle(d) ==
  [datum |-> d, r |-> craterRadius(Record(d).diameter), class |-> CategoryClass(d)]

\* the document of the crater group after one join of data
Joined(group, data) ==
  LET groupKeys == Array([i \in 1..Len(group) |-> KeyOf(group[i].datum)])
      dataKeys == Array([i \in 1..Len(data) |-> KeyOf(data[i])])
      upd == BindKey(groupKeys, dataKeys)
  IN  AppendEnter(AfterExit(Len(group), upd), upd, 1)

\* update() past its reads of the controls: the circles and where each was
Redraw(showSurvived, showErased, threshold, group) ==
  LET data == Filtered(showSurvived, showErased, threshold)
      doc == Joined(group, data)
  IN  [markers |-> [p \in 1..Len(doc) |-> Circle(data[doc[p][2]])],
       origin |-> [p \in 1..Len(doc) |->
                     IF doc[p][1] = 0 THEN <<0>>
                     ELSE <<doc[p][1], group[doc[p][1]].datum>>]]

(***************************************************************************)
(* The controls of the page.                                               *)
(***************************************************************************)
Checkbox(checked) == <<"checkbox", checked>>
Range(max, value) == <<"range", max, value>>
Span(text) == <<"span", text>>
\* the slider as the page has it before setupSlider
HtmlSlider == Range(100, 0)
\* label texts: what the page came with, "<n>" and "<n> km"
HtmlText == <<"html">>
NumText(n) == <<"text", n, "">>
KmText(n) == <<"text", n, " km">>

\* script.js reads control.checked and slider.value of a control that may be
\* null; part_000 tests the control first
UpdateThrows(cbS, cbE, sl) ==
  variant = "time" /\ (cbS = Null \/ cbE = Null \/ sl = Null)
ShowFlag(cb) == IF cb = Null THEN TRUE ELSE cb[2]
Threshold(sl) == IF sl = Null THEN 0 ELSE sl[3]

\* update() of part_000 writes the label first, when there is one
LabelAfterUpdate(sl, label) ==
  IF variant = "diameter" /\ label # Null THEN Span(KmText(Threshold(sl))) ELSE label

(***************************************************************************)
(* Dataset loader and slider setup.                                        *)
(***************************************************************************)
\* d3.max: the largest number of the array, undefined if it holds none
D3Max(values) ==
  LET nums == {values[i][2] : i \in {j \in 1..Len(values) : IsNum(values[j])}}
  IN  IF nums = {} THEN Undefined ELSE Num(CHOOSE m \in nums : \A n \in nums : n <= m)

\* Math.ceil of a number counted in units
Ceil(v, unit) == (v + unit - 1) \div unit

fallbackTime == 100
fallbackDiameter == 50

\* Math.ceil(max || fallback): 0, NaN and undefined are falsy
RoundedMax ==
  LET all == Data("S") \o Data("E")
      max == D3Max([i \in 1..Len(all) |-> FilterField(all[i])])
  IN  IF IsNum(max) /\ max[2] # 0
      THEN Ceil(max[2], FilterUnit)
      ELSE IF variant = "time" THEN fallbackTime ELSE fallbackDiameter

\* setupSlider: the slider and the label, each only if it is there
SetupSlider(sl, maxVal) == IF sl # Null THEN Range(maxVal, 0) ELSE sl
SetupLabel(label) ==
  IF label # Null THEN Span(IF variant = "time" THEN NumText(0) ELSE KmText(0))
  ELSE label

(***************************************************************************)
(* Map builder.                                                            *)
(***************************************************************************)
Layers == {"image", "sphere", "outline", "graticule", "craters"}
\* script.js draws the base image and fetches the outline; part_000 does neither
BuiltLayers ==
  IF variant = "time" THEN {"image", "sphere", "graticule", "craters"}
  ELSE {"sphere", "graticule", "craters"}

\* createCraterMap up to the listeners: a new svg with its layers
AppendSvg ==
  [count |-> svg.count + 1,
   layers |-> BuiltLayers,
   transform |-> [l \in Layers |-> 0]]

\* the listeners createCraterMap registers: script.js stops at the first null
\* control, part_000 skips the null ones
Registered(cbS, cbE, sl) ==
  IF variant = "time"
  THEN (IF cbS = Null THEN {}
        ELSE IF cbE = Null THEN {"survived"}
        ELSE IF sl = Null THEN {"survived", "erased"}
        ELSE {"survived", "erased", "slider"})
  ELSE {c \in {"survived", "erased", "slider"} :
          \/ c = "survived" /\ cbS # Null
          \/ c = "erased" /\ cbE # Null
          \/ c = "slider" /\ sl # Null}

\* update() as an event handler or as the initial draw, on the controls as
\* they are after the event: a TypeError leaves the circles as they were
RunUpdate(cbS, cbE, sl, label) ==
  IF UpdateThrows(cbS, cbE, sl)
  THEN /\ thrown' = TRUE
       /\ sliderLabel' = label
       /\ UNCHANGED <<markers, origin>>
  ELSE LET drawn == Redraw(ShowFlag(cbS), ShowFlag(cbE), Threshold(sl), markers)
       IN  /\ markers' = drawn.markers
           /\ origin' = drawn.origin
           /\ sliderLabel' = LabelAfterUpdate(sl, label)
           /\ UNCHANGED thrown

(***************************************************************************)
(* Actions of the map.                                                     *)
(***************************************************************************)
Other(f) == IF f = "S" THEN "E" ELSE "S"

\* createCraterMap has run and the loader is at its end: from here on a
\* control may have a listener. What the user does to the controls of a
\* page without a map changes only the controls, as the initial states do.
Settled == svg.count > 0 /\ loadPc \in {"done", "logged"}

\* Promise.all after d3.csv of f resolved: fulfilled once both have
AllAfterOkAny(f) == IF loadPc = "pending" THEN "fulfilled" ELSE loadPc

AllAfterOk(f) ==
  IF loadPc = "pending" /\ fetch[Other(f)] = "ok" THEN "fulfilled" ELSE loadPc

\* one d3.csv resolves
FetchOk(f) ==
  /\ fetch[f] = "pending"
  /\ fetch' = [fetch EXCEPT ![f] = "ok"]
  /\ loadPc' = AllAfterOk(f)
  /\ UNCHANGED <<variant, files, logCount, showSurvivedInput, showErasedInput,
                 slider, sliderLabel, nonmare, svg, outline, markers, origin,
                 listeners, zoomOn, thrown, rowVars>>

\* one d3.csv rejects; Promise.all rejects with the first rejection
FetchFail(f) ==
  /\ fetch[f] = "pending"
  /\ fetch' = [fetch EXCEPT ![f] = "failed"]
  /\ loadPc' = IF loadPc = "pending" THEN "rejected" ELSE loadPc
  /\ UNCHANGED <<variant, files, logCount, showSurvivedInput, showErasedInput,
                 slider, sliderLabel, nonmare, svg, outline, markers, origin,
                 listeners, zoomOn, thrown, rowVars>>

\* the .then callback: slider range, setupSlider, createCraterMap with its
\* initial update(); a TypeError inside rejects the chain
ThenHandler ==
  /\ loadPc = "fulfilled"
  /\ LET sl == SetupSlider(slider, RoundedMax)
         label == SetupLabel(sliderLabel)
         throws == variant = "time"
                   /\ (showSurvivedInput = Null \/ showErasedInput = Null \/ sl = Null)
     IN  /\ slider' = sl
         /\ nonmare' = IF variant = "diameter"
                        THEN [slider |-> SetupSlider(nonmare.slider, RoundedMax),
                              label |-> SetupLabel(nonmare.label)]
                        ELSE nonmare
         /\ svg' = AppendSvg
         /\ outline' = IF variant = "time" THEN "pending" ELSE outline
         /\ listeners' = Registered(showSurvivedInput, showErasedInput, sl)
         /\ IF throws
            THEN /\ thrown' = TRUE
                 /\ sliderLabel' = label
                 /\ loadPc' = "rejected"
                 /\ UNCHANGED <<markers, origin, zoomOn>>
            ELSE /\ RunUpdate(showSurvivedInput, showErasedInput, sl, label)
                 /\ zoomOn' = (variant = "time")
                 /\ loadPc' = "done"
  /\ UNCHANGED <<variant, files, fetch, logCount, showSurvivedInput,
                 showErasedInput, rowVars>>

\* the .catch callback
CatchHandler ==
  /\ loadPc = "rejected"
  /\ loadPc' = "logged"
  /\ logCount' = logCount + 1
  /\ UNCHANGED <<variant, files, fetch, showSurvivedInput, showErasedInput,
                 slider, sliderLabel, nonmare, svg, outline, markers, origin,
                 listeners, zoomOn, thrown, rowVars>>

\* the user flips the survived checkbox; its change listener, if registered,
\* is update
ChangeSurvived ==
  /\ Settled
  /\ showSurvivedInput # Null
  /\ showSurvivedInput' = Checkbox(~showSurvivedInput[2])
  /\ IF "survived" \in listeners
     THEN RunUpdate(showSurvivedInput', showErasedInput, slider, sliderLabel)
     ELSE UNCHANGED <<markers, origin, sliderLabel, thrown>>
  /\ UNCHANGED <<variant, files, fetch, loadPc, logCount, showErasedInput,
                 slider, nonmare, svg, outline, listeners, zoomOn, rowVars>>

ChangeErased ==
  /\ Settled
  /\ showErasedInput # Null
  /\ showErasedInput' = Checkbox(~showErasedInput[2])
  /\ IF "erased" \in listeners
     THEN RunUpdate(showSurvivedInput, showErasedInput', slider, sliderLabel)
     ELSE UNCHANGED <<markers, origin, sliderLabel, thrown>>
  /\ UNCHANGED <<variant, files, fetch, loadPc, logCount, showSurvivedInput,
                 slider, nonmare, svg, outline, listeners, zoomOn, rowVars>>

\* the user moves the slider to v; script.js writes the label, then calls
\* update; part_000 calls update
SliderInput(v) ==
  /\ Settled
  /\ slider # Null
  /\ v <= slider[2]
  /\ v # slider[3]
  /\ slider' = Range(slider[2], v)
  /\ IF "slider" \notin listeners
     THEN UNCHANGED <<markers, origin, sliderLabel, thrown>>
     ELSE IF variant = "time" /\ sliderLabel = Null
     THEN /\ thrown' = TRUE
          /\ UNCHANGED <<markers, origin, sliderLabel>>
     ELSE RunUpdate(showSurvivedInput, showErasedInput, slider',
                    IF variant = "time" THEN Span(NumText(v)) ELSE sliderLabel)
  /\ UNCHANGED <<variant, files, fetch, loadPc, logCount, showSurvivedInput,
                 showErasedInput, nonmare, svg, outline, listeners, zoomOn, rowVars>>

\* layers the zoom handler selects
Zoomed == {"craters", "outline", "graticule", "image"}

\* a zoom event with transform t: the handler sets it on the layers there are
Zoom(t) ==
  /\ zoomOn
  /\ t # svg.transform["craters"]
  /\ svg' = [svg EXCEPT !.transform =
                [l \in Layers |-> IF l \in Zoomed /\ l \in svg.layers
                                  THEN t ELSE svg.transform[l]]]
  /\ UNCHANGED <<variant, files, fetch, loadPc, logCount, showSurvivedInput,
                 showErasedInput, slider, sliderLabel, nonmare, outline, markers,
                 origin, listeners, zoomOn, thrown, rowVars>>

\* d3.json of the outline resolves: the outline path is appended
OutlineOk ==
  /\ outline = "pending"
  /\ outline' = "ok"
  /\ svg' = [svg EXCEPT !.layers = @ \cup {"outline"}]
  /\ UNCHANGED <<variant, files, fetch, loadPc, logCount, showSurvivedInput,
                 showErasedInput, slider, sliderLabel, nonmare, markers, origin,
                 listeners, zoomOn, thrown, rowVars>>

\* d3.json of the outline rejects: nothing is drawn
OutlineFail ==
  /\ outline = "pending"
  /\ outline' = "failed"
  /\ UNCHANGED <<variant, files, fetch, loadPc, logCount, showSurvivedInput,
                 showErasedInput, slider, sliderLabel, nonmare, svg, markers,
                 origin, listeners, zoomOn, thrown, rowVars>>

(***************************************************************************)
(* The map: both scripts, every page with or without each control, csv     *)
(* files of up to MaxRows rows drawn from CsvRows.                         *)
(***************************************************************************)
CsvRow(lon, lat, diam, created, survived) ==
  [Longitude |-> lon, Latitude |-> lat, diameter |-> diam,
   TimeStepCreated |-> created, SurvivedTimeStep |-> survived]

\* two rows at one place with one diameter, a row with a malformed
\* timestep and a row with a malformed diameter
CsvRows ==
  {CsvRow(Digits(190), Digits(10), Digits(32), Digits(0), Digits(5)),
   CsvRow(Digits(190), Digits(10), Digits(32), Digits(2), EmptyText),
   CsvRow(Digits(10), Digits(-5), Digits(3), BadText, Digits(1)),
   CsvRow(Digits(350), Digits(0), BadText, Digits(1), Undefined)}

RowSeqs == UNION {[1..k -> CsvRows] : k \in 0..MaxRows}
FilePairs ==
  {p \in RowSeqs \X RowSeqs : Len(p[1]) + Len(p[2]) <= MaxRows}

BenchOff ==
  /\ benchPc = "off"
  /\ row = <<>>
  /\ rec = <<>>
  /\ radius = <<>>

Init ==
  /\ variant \in Variants
  /\ \E p \in FilePairs : files = [S |-> p[1], E |-> p[2]]
  /\ fetch = [f \in {"S", "E"} |-> "pending"]
  /\ loadPc = "pending"
  /\ logCount = 0
  /\ showSurvivedInput \in {Null, Checkbox(TRUE), Checkbox(FALSE)}
  /\ showErasedInput \in {Null, Checkbox(TRUE), Checkbox(FALSE)}
  /\ slider \in {Null, HtmlSlider}
  /\ sliderLabel \in {Null, Span(HtmlText)}
  /\ nonmare \in (IF variant = "diameter"
                   THEN {[slider |-> Null, label |-> Null],
                         [slider |-> HtmlSlider, label |-> Span(HtmlText)]}
                   ELSE {[slider |-> Null, label |-> Null]})
  /\ svg = [count |-> 0, layers |-> {}, transform |-> [l \in Layers |-> 0]]
  /\ outline = "none"
  /\ markers = <<>>
  /\ origin = <<>>
  /\ listeners = {}
  /\ zoomOn = FALSE
  /\ thrown = FALSE
  /\ BenchOff

\* the loader and the controls
Next ==
  \/ \E f \in {"S", "E"} : FetchOk(f)
  \/ \E f \in {"S", "E"} : FetchFail(f)
  \/ ThenHandler
  \/ CatchHandler
  \/ ChangeSurvived
  \/ ChangeErased
  \/ \E v \in 0..MaxSlide : SliderInput(v)

Spec == Init /\ [][Next]_vars

\* the same with the pan/zoom gestures and the outline's arrival, which
\* write svg.layers, svg.transform and outline and nothing else
NextZoom ==
  \/ \E f \in {"S", "E"} : FetchOk(f)
  \/ \E f \in {"S", "E"} : FetchFail(f)
  \/ ThenHandler
  \/ CatchHandler
  \/ ChangeSurvived
  \/ ChangeErased
  \/ \E v \in 0..MaxSlide : SliderInput(v)
  \/ \E t \in 0..MaxZoom : Zoom(t)
  \/ OutlineOk
  \/ OutlineFail

SpecZoom == Init /\ [][NextZoom]_vars

(***************************************************************************)
(* The row bench: parseCraterRow and craterRadius on one csv row after     *)
(* another, as d3.csv calls the row function and update() the scale.       *)
(***************************************************************************)
BenchLongitudes ==
  {Digits(15 * k) : k \in 0..23} \cup {Digits(1), Digits(179), Digits(181), Digits(359)}
BenchDiameters ==
  {Digits(h) : h \in {-2, -1, 0, 1, 3, 4, 32, 199, 200, 300}} \cup {BadText}
BenchRows ==
  {CsvRow(lon, Digits(10), diam, Digits(5), EmptyText) :
     lon \in BenchLongitudes, diam \in BenchDiameters}

MapOff ==
  /\ files = [S |-> <<>>, E |-> <<>>]
  /\ fetch = [f \in {"S", "E"} |-> "off"]
  /\ loadPc = "off"
  /\ logCount = 0
  /\ showSurvivedInput = Null
  /\ showErasedInput = Null
  /\ slider = Null
  /\ sliderLabel = Null
  /\ nonmare = [slider |-> Null, label |-> Null]
  /\ svg = [count |-> 0, layers |-> {}, transform |-> [l \in Layers |-> 0]]
  /\ outline = "none"
  /\ markers = <<>>
  /\ origin = <<>>
  /\ listeners = {}
  /\ zoomOn = FALSE
  /\ thrown = FALSE

BenchInit ==
  /\ variant \in Variants
  /\ MapOff
  /\ benchPc = "read"
  /\ row \in BenchRows
  /\ rec = <<>>
  /\ radius = <<>>

\* the row function of d3.csv
BenchParse ==
  /\ benchPc = "read"
  /\ rec' = parseCraterRow(variant, row)
  /\ benchPc' = "parsed"
  /\ UNCHANGED <<variant, mapVars, row, radius>>

\* .attr("r", d => craterRadius(d.diameter))
BenchRadius ==
  /\ benchPc = "parsed"
  /\ radius' = craterRadius(rec.diameter)
  /\ benchPc' = "scaled"
  /\ UNCHANGED <<variant, mapVars, row, rec>>

\* the next row of the file
BenchRead ==
  /\ benchPc = "scaled"
  /\ row' \in BenchRows
  /\ rec' = <<>>
  /\ radius' = <<>>
  /\ benchPc' = "read"
  /\ UNCHANGED <<variant, mapVars>>

BenchNext == BenchParse \/ BenchRadius \/ BenchRead

SpecRow == BenchInit /\ [][BenchNext]_vars

(***************************************************************************)
(* Properties.                                                             *)
(***************************************************************************)
AllRefs == {<<"S", i>> : i \in 1..Len(files["S"])} \cup {<<"E", i>> : i \in 1..Len(files["E"])}
MarkerData(ms) == {ms[p].datum : p \in 1..Len(ms)}

\* the records the controls select: a category is shown if its checkbox is
\* checked or missing, the threshold is the slider's value, 0 without slider
Selected ==
  {d \in AllRefs :
     /\ \/ d[1] = "S" /\ ShowFlag(showSurvivedInput)
        \/ d[1] = "E" /\ ShowFlag(showErasedInput)
     /\ PassesFilter(d, Threshold(slider))}

MarkersShowSelected ==
  /\ MarkerData(markers) = Selected
  /\ Len(markers) = Cardinality(Selected)

\* C1: once the map is drawn, the circles are exactly the records the
\* current state of the checkboxes and the slider selects, one circle each,
\* whatever the controls were before.
C1_MarkersMatchControls == loadPc = "done" => MarkersShowSelected

\* C2: no control being absent makes the script throw, and once the
\* drawing surface exists the circles are the records selected with an
\* absent checkbox read as checked and an absent slider as 0.
C2_MissingControlsDegrade ==
  /\ ~thrown
  /\ svg.count > 0 => MarkersShowSelected

SomeFetchFailed == fetch["S"] = "failed" \/ fetch["E"] = "failed"

\* C3: setupSlider and createCraterMap have run only if both fetches
\* succeeded; after a failed fetch no drawing surface exists, the slider
\* range and the label are as the page had them, and the error is logged
\* once the catch callback has run, and never twice.
C3_LoadsBothOrLogsOnce ==
  /\ svg.count > 0 => fetch["S"] = "ok" /\ fetch["E"] = "ok"
  /\ svg.count <= 1
  /\ logCount <= 1
  /\ SomeFetchFailed =>
       /\ svg.count = 0
       /\ markers = <<>>
       /\ slider # Null => slider[2] = HtmlSlider[2]
       /\ sliderLabel # Null => sliderLabel = Span(HtmlText)
       /\ \/ loadPc = "rejected" /\ logCount = 0
          \/ loadPc = "logged" /\ logCount = 1

\* one fetch succeeded, the other failed, and the catch callback has run
C3_Witness ==
  /\ fetch["S"] = "ok"
  /\ fetch["E"] = "failed"
  /\ loadPc = "logged"
  /\ logCount = 1
  /\ slider # Null

\* the update of this step ran to its end on a checkbox switched off
SwitchedOff(cb, cbNew, name) ==
  /\ loadPc = "done"
  /\ name \in listeners
  /\ cb # Null /\ cb[2] /\ ~cbNew[2]
  /\ slider' = slider

\* the circles of category gone leave, those of category stays are the same
\* elements with the same record and class, and none is created
OnlyCategoryLeaves(gone, stays) ==
  /\ \A p \in 1..Len(markers) :
       markers[p].datum[1] = gone =>
         \A q \in 1..Len(markers') : origin'[q][1] # p
  /\ \A p \in 1..Len(markers) :
       markers[p].datum[1] = stays =>
         \E q \in 1..Len(markers') :
           /\ origin'[q][1] = p
           /\ markers'[q].datum = markers[p].datum
           /\ markers'[q].class = markers[p].class
  /\ \A q \in 1..Len(markers') : origin'[q][1] # 0

\* C4: switching one category's checkbox off, at an unchanged threshold,
\* removes that category's circles and leaves the circles of the other
\* category as they are: the same elements, records and classes.
C4_ToggleOffRemovesOnlyCategory ==
  [][/\ SwitchedOff(showSurvivedInput, showSurvivedInput', "survived")
        => OnlyCategoryLeaves("S", "E")
     /\ SwitchedOff(showErasedInput, showErasedInput', "erased")
        => OnlyCategoryLeaves("E", "S")]_vars

\* C5: with the checkboxes as they are, a step that raises the slider never
\* adds a record to the circles nor raises their number, and a step that
\* lowers it never takes one away.
C5_FilterMonotone ==
  [][(/\ loadPc = "done" /\ loadPc' = "done"
      /\ slider # Null
      /\ showSurvivedInput' = showSurvivedInput
      /\ showErasedInput' = showErasedInput)
     => /\ slider[3] <= slider'[3] =>
             /\ MarkerData(markers') \subseteq MarkerData(markers)
             /\ Len(markers') <= Len(markers)
        /\ slider'[3] <= slider[3] =>
             /\ MarkerData(markers) \subseteq MarkerData(markers')
             /\ Len(markers) <= Len(markers')]_vars

\* the slider is up, update has run, and a record with a number below the
\* slider and a record whose filter field is not a number are hidden
C5_Witness ==
  /\ loadPc = "done"
  /\ slider # Null /\ slider[3] > 0
  /\ "slider" \in listeners
  /\ ~thrown
  /\ \E d \in AllRefs \ MarkerData(markers) :
       ShowFlag(IF d[1] = "S" THEN showSurvivedInput ELSE showErasedInput)
       /\ IsNum(FilterField(Record(d)))
  /\ \E d \in AllRefs \ MarkerData(markers) :
       ShowFlag(IF d[1] = "S" THEN showSurvivedInput ELSE showErasedInput)
       /\ ~IsNum(FilterField(Record(d)))

\* C6: the maximum setupSlider gives the slider is the ceiling of the
\* largest filter field of the two datasets whenever that is a number, 0
\* included, and the fallback (100 or 50) only when there is none.
C6_SliderBoundIsCeilOfMax ==
  (loadPc = "done" /\ slider # Null) =>
    LET fields == {FilterField(Record(d)) : d \in AllRefs}
        nums == {x[2] : x \in {y \in fields : IsNum(y)}}
    IN  IF nums = {}
        THEN slider[2] = (IF variant = "time" THEN fallbackTime ELSE fallbackDiameter)
        ELSE \E m \in nums :
               /\ \A n \in nums : n <= m
               /\ slider[2] * FilterUnit >= m
               /\ (slider[2] - 1) * FilterUnit < m

\* C7: a parsed record's lon is the raw longitude minus 180, plus 360 if
\* that is below -180, and lies in [-180, 180), for raw longitudes in
\* [0, 360), in both scripts.
C7_LonNormalized ==
  (benchPc \in {"parsed", "scaled"}
   /\ row.Longitude[1] = "digits"
   /\ row.Longitude[2] >= 0 /\ row.Longitude[2] < 360)
  => /\ IsNum(rec.lon)
     /\ rec.lon[2] = (IF row.Longitude[2] - 180 < -180
                      THEN row.Longitude[2] - 180 + 360
                      ELSE row.Longitude[2] - 180)
     /\ rec.lon[2] >= -180 /\ rec.lon[2] < 180

\* C8: craterRadius of every numeric diameter is a number in [1, 8], is 1
\* for every diameter <= 0, and is no smaller than the radius of any
\* smaller diameter >= 0.
C8_RadiusBoundedMonotone ==
  (benchPc = "scaled" /\ IsNum(rec.diameter))
  => /\ IsNum(radius)
     /\ radius[2] >= minR * PixelUnit /\ radius[2] <= maxR * PixelUnit
     /\ rec.diameter[2] <= 0 => radius[2] = minR * PixelUnit
     /\ \A h \in 0..rec.diameter[2] :
          craterRadius(Num(h))[2] <= radius[2]

\* C9: every circle's class names the array its record is in.
C9_ClassMatchesArray ==
  \A p \in 1..Len(markers) :
    markers[p].class =
      (IF markers[p].datum[1] = "S" THEN "crater-survived" ELSE "crater-erased")

\* a circle that was bound to a survived record is now bound to an erased
\* record with the same key, next to a circle of the other class
C9_Witness ==
  \E p \in 1..Len(markers) :
    /\ origin[p][1] # 0
    /\ origin[p][2][1] = "S"
    /\ markers[p].datum[1] = "E"
    /\ KeyOf(origin[p][2]) = KeyOf(markers[p].datum)
    /\ markers[p].class = "crater-erased"

\* C10: the layers the zoom handler moves, as far as they exist, carry one
\* transform, whenever the outline arrives.
C10_LayersZoomTogether ==
  \A l1, l2 \in Zoomed \cap svg.layers : svg.transform[l1] = svg.transform[l2]

====
